---------------------------- MODULE Spec2Model ----------------------------
(***************************************************************************)
(* Model of broker/vnstock_server.py: HighPerformanceStockService, a gRPC  *)
(* servicer whose GetStockData handler runs on a thread pool and shares    *)
(* one unsynchronised dict (self.cache) between the worker threads.        *)
(*                                                                         *)
(* Conventions                                                             *)
(*  - a Python str is a sequence of tokens; the token "_" is the           *)
(*    underscore, "a"/"A" a lower/upper-case letter, "D1".."D3" stand for  *)
(*    the ten characters of a zero-padded ISO date, "d1" for the same date *)
(*    as "D1" written without padding, "x" for text that is no date.       *)
(*  - a pandas cell is <<v>> (a value) or <<>> (NaN / NaT).                *)
(*  - raw prices and volumes are integers; a value the code rounds to two  *)
(*    decimals is held as an integer number of hundredths.                 *)
(*  - the wall clock (time.time(), datetime.now()) is the variable now.    *)
(***************************************************************************)
EXTENDS Integers, Sequences, FiniteSets, TLC

\* ------------------------------------------------------------------ bounds
NumWorkers == 2
MaxCalls == 3
MaxTicks == 1
MaxExtra == 3
MaxSmall == 3
MaxShift == 4
MaxLen == 1
SlotsPerDay == 2
MaxClose == 2
MaxVolume == 3

\* --------------------------------------------------------- program constants
cache_ttl == 30
MaxHistory == 200

\* seconds the model clock advances in one Tick: one TTL, so that an entry is
\* looked up at the ages 0 (fresh), 30 (the boundary) and beyond
TickStep == cache_ttl

Workers == 1..NumWorkers

\* ------------------------------------------------------------------ strings
UpperChar(c) == IF c = "a" THEN "A" ELSE c

\* the string left in the case it came in
UpperAsIs(s) == s

\* str.upper()
Upper(s) == [i \in 1..Len(s) |-> UpperChar(s[i])]

\* f"{symbol}_{start_date}_{end_date}_{interval}"
CacheKey(symbol, start_date, end_date, interval) ==
    symbol \o <<"_">> \o start_date \o <<"_">> \o end_date \o <<"_">> \o interval

\* datetime.strptime(s, "%Y-%m-%d"): the day number, or <<>> when it raises
Strptime(s) ==
    IF s = <<"D1">> \/ s = <<"d1">> THEN <<1>>
    ELSE IF s = <<"D2">> THEN <<2>>
    ELSE IF s = <<"D3">> THEN <<3>>
    ELSE <<>>

\* dt.strftime("%Y-%m-%d"): always zero-padded
Strftime(day) ==
    IF day = 1 THEN <<"D1">> ELSE IF day = 2 THEN <<"D2">> ELSE <<"D3">>

\* str(e) of the ValueError strptime raises
ParseErrorMessage(s) == <<"time data ">> \o s \o <<" does not match format">>

\* ------------------------------------------------------------- pandas cells
NaN == <<>>
notna(x) == x # NaN
Cell(v) == <<v>>
ValueOf(x) == x[1]

\* ------------------------------------------------------------ the DataFrame
\* A DataFrame is a sequence of rows [time, close, volume, high, low], each
\* field a cell.  time is a slot number (SlotsPerDay slots to a calendar day).
Row(t, c, v, h, l) ==
    [time |-> t, close |-> c, volume |-> v, high |-> h, low |-> l]

\* Timestamp.strftime("%Y-%m-%d"): the calendar day, the time of day is lost
DateOf(t) == <<"day", t \div SlotsPerDay>>

\* order of df.sort_values('time'): ascending, NaT last
TimeBefore(a, b) ==
    \/ notna(a.time) /\ notna(b.time) /\ ValueOf(a.time) < ValueOf(b.time)
    \/ notna(a.time) /\ ~notna(b.time)

\* df.sort_values('time').  pandas sorts with quicksort, which leaves the
\* order of rows with equal time open; the frames of this model have no two
\* rows with the same time.
sort_values(df) == SortSeq(df, TimeBefore)

\* no slice at all: the sorted frame goes on whole
TruncateNever(df) == df

\* the slice taken from the wrong end: df.iloc[:200]
TruncateHead(df) ==
    IF Len(df) > MaxHistory THEN SubSeq(df, 1, MaxHistory) ELSE df

\* if len(df) > 200: df = df.iloc[-200:]
Truncate(df) ==
    IF Len(df) > MaxHistory
    THEN SubSeq(df, Len(df) - MaxHistory + 1, Len(df))
    ELSE df

\* one element of price_data; numeric NaN becomes 0, NaT becomes ""
PricePoint(row) ==
    [date   |-> IF notna(row.time) THEN DateOf(ValueOf(row.time)) ELSE <<>>,
     close  |-> IF notna(row.close) THEN ValueOf(row.close) ELSE 0,
     volume |-> IF notna(row.volume) THEN ValueOf(row.volume) ELSE 0,
     high   |-> IF notna(row.high) THEN ValueOf(row.high) ELSE 0,
     low    |-> IF notna(row.low) THEN ValueOf(row.low) ELSE 0]

\* the loop over df.iterrows() that fills price_data
PriceData(df) == [i \in 1..Len(df) |-> PricePoint(df[i])]

\* ---------------------------------------------------------------- numerics
Abs(n) == IF n < 0 THEN -n ELSE n

\* n / d rounded to an integer, ties to even (round() of Python 3)
RoundDiv(n, d) ==
    LET a == Abs(n)
        b == Abs(d)
        q == a \div b
        r == a % b
        m == IF 2 * r < b THEN q
             ELSE IF 2 * r > b THEN q + 1
             ELSE IF q % 2 = 0 THEN q ELSE q + 1
    IN  IF (n < 0) = (d < 0) THEN m ELSE -m

RECURSIVE SumVolume(_, _, _)
\* sum of the non-NaN volumes of rows lo..hi (halving keeps the nesting low)
SumVolume(df, lo, hi) ==
    IF lo > hi THEN 0
    ELSE IF lo = hi
    THEN IF notna(df[lo].volume) THEN ValueOf(df[lo].volume) ELSE 0
    ELSE LET mid == (lo + hi) \div 2
         IN  SumVolume(df, lo, mid) + SumVolume(df, mid + 1, hi)

CountVolume(df) == Cardinality({i \in 1..Len(df) : notna(df[i].volume)})

\* the mean rounded to the nearest integer instead of truncated
AvgVolumeRounded(df) ==
    IF CountVolume(df) = 0 THEN 0
    ELSE RoundDiv(SumVolume(df, 1, Len(df)), CountVolume(df))

\* int(df['volume'].mean()) if not df['volume'].isna().all() else 0
\* (mean() skips NaN; int() truncates; volumes are not negative)
AvgVolume(df) ==
    IF CountVolume(df) = 0 THEN 0
    ELSE SumVolume(df, 1, Len(df)) \div CountVolume(df)

\* a guard that lets every value through
GuardAbsent(x) == TRUE

\* prev_price != 0 (line 106); NaN != 0 is True
PrevPriceGuard(prev_price) == prev_price # Cell(0)

\* avg_volume > 0 (line 111)
AvgVolumeGuard(avg_volume) == avg_volume > 0

\* latest_price > 0 (line 115); NaN > 0 is False
LatestPriceGuard(latest_price) ==
    notna(latest_price) /\ ValueOf(latest_price) > 0

\* with a single row the previous row counts as a row of close 0
PrevDataZero(df) ==
    IF Len(df) > 1 THEN df[Len(df) - 1]
    ELSE [df[Len(df)] EXCEPT !.close = Cell(0)]

\* prev_data = df.iloc[-2] if len(df) > 1 else latest_data (line 101)
PrevData(df) == IF Len(df) > 1 THEN df[Len(df) - 1] ELSE df[Len(df)]

\* a division of lines 106-115 is reached with a divisor of zero: Python
\* raises ZeroDivisionError whatever the dividend
ZeroDivision(df) ==
    LET latest_price == df[Len(df)].close
        prev_price == PrevData(df).close
        avg_volume == AvgVolume(df)
    IN  \/ PrevPriceGuard(prev_price) /\ prev_price = Cell(0)
        \/ AvgVolumeGuard(avg_volume) /\ avg_volume = 0
        \/ LatestPriceGuard(latest_price) /\ latest_price = Cell(0)

\* the "market_data" dict; df is the sorted, truncated, non-empty frame.
\* latest_price is in price units, the rounded fields in hundredths.
MarketData(df) ==
    LET latest_data == df[Len(df)]
        prev_data == PrevData(df)
        latest_price == latest_data.close
        prev_price == prev_data.close
        price_change ==
            IF notna(latest_price) /\ notna(prev_price)
            THEN Cell(ValueOf(latest_price) - ValueOf(prev_price)) ELSE NaN
        \* prev_price != 0 is True for NaN
        price_change_percent ==
            IF PrevPriceGuard(prev_price)
            THEN IF notna(price_change)
                 THEN Cell(RoundDiv(ValueOf(price_change) * 10000,
                                    ValueOf(prev_price)))
                 ELSE NaN
            ELSE Cell(0)
        current_volume ==
            IF notna(latest_data.volume) THEN ValueOf(latest_data.volume) ELSE 0
        avg_volume == AvgVolume(df)
        volume_ratio ==
            IF AvgVolumeGuard(avg_volume)
            THEN RoundDiv(current_volume * 100, avg_volume)
            ELSE 100
        high_low_spread ==
            IF notna(latest_data.high) /\ notna(latest_data.low)
            THEN Cell(ValueOf(latest_data.high) - ValueOf(latest_data.low))
            ELSE NaN
        \* latest_price > 0 is False for NaN
        price_volatility ==
            IF LatestPriceGuard(latest_price)
            THEN IF notna(high_low_spread)
                 THEN Cell(RoundDiv(ValueOf(high_low_spread) * 10000,
                                    ValueOf(latest_price)))
                 ELSE NaN
            ELSE Cell(0)
    IN  [latest_price         |-> latest_price,
         price_change         |-> IF notna(price_change)
                                  THEN Cell(ValueOf(price_change) * 100)
                                  ELSE NaN,
         price_change_percent |-> price_change_percent,
         current_volume       |-> current_volume,
         volume_ratio         |-> volume_ratio,
         price_volatility     |-> price_volatility,
         trading_date         |-> IF notna(latest_data.time)
                                  THEN DateOf(ValueOf(latest_data.time))
                                  ELSE <<>>]

\* lines 74-79: the frame the metrics and the history are computed from
Window(df) == Truncate(sort_values(df))

\* the dict `result` (lines 117-132), built at clock reading t
BuildResult(symbol, df, t) ==
    LET w == Window(df)
        price_data == PriceData(w)
    IN  [symbol        |-> Upper(symbol),
         timestamp     |-> t,
         market_data   |-> MarketData(w),
         price_history |-> price_data,
         data_points   |-> Len(price_data),
         status        |-> "success"]

\* the dict the except branch returns (lines 147-152), built at clock reading t
BuildError(symbol, message, t) ==
    [symbol |-> Upper(symbol), timestamp |-> t, status |-> "error",
     error |-> message]

\* str(e) of the ZeroDivisionError of a float division
ZeroDivisionMessage == <<"float division by zero">>

\* lines 73-152 on a non-empty frame: `result`, or the dict of the except
\* branch when a division raises
NormaliseOutcome(symbol, df, t) ==
    IF ZeroDivision(Window(df))
    THEN BuildError(symbol, ZeroDivisionMessage, t)
    ELSE BuildResult(symbol, df, t)

\* ------------------------------------------------------ requests and provider
Request(symbol, start_date, end_date, interval) ==
    [symbol |-> symbol, start_date |-> start_date, end_date |-> end_date,
     interval |-> interval]

\* cache_key of a request (line 46 on the fields GetStockData passes on)
KeyOf(r) == CacheKey(r.symbol, r.start_date, r.end_date, r.interval)

\* The requests the clients send: a lower-case symbol, another symbol with the
\* interval left empty, and a start date that is no date.
Requests ==
    { Request(<<"a">>, <<"D1">>, <<"D2">>, <<"I">>),
      Request(<<"B">>, <<"D1">>, <<"D2">>, <<>>),
      Request(<<"a">>, <<"x">>, <<"D2">>, <<"I">>) }

\* The end-to-end example of the documentation, delivered newest row first
ExampleRows ==
    << Row(Cell(4), Cell(84), Cell(150), Cell(85), Cell(83)),
       Row(Cell(2), Cell(80), Cell(100), Cell(82), Cell(79)) >>

\* str(e) of the exceptions the provider raises
ProviderErrors == { <<"ConnectionError">> }

FrameOutcome(df) == [kind |-> "frame", df |-> df, error |-> <<>>]
RaiseOutcome(e) == [kind |-> "raise", df |-> <<>>, error |-> e]

\* What one call stock_obj.quote.history(start, end, interval) of the provider
\* may do: return a DataFrame or raise.  The provider holds rows for "B"; a
\* query for "A" finds rows, finds none, or fails.
FetchOutcomes(symbol, start, end, interval) ==
    IF symbol = <<"B">>
    THEN { FrameOutcome(ExampleRows) }
    ELSE { FrameOutcome(ExampleRows), FrameOutcome(<<>>) }
           \cup { RaiseOutcome(e) : e \in ProviderErrors }

\* --------------------------------------------------------------- the state
VARIABLES
    cache,      \* self.cache: cache_key -> [data, timestamp]
    now,        \* the wall clock
    pc,         \* where each pool thread is in GetStockData
    request,    \* the request each thread is serving
    loc,        \* the locals of each thread's call
    obs,        \* what each thread's current call has done so far (history)
    returned,   \* the call that has just returned, with its StockResponse
    last_put,   \* history: cache_key -> the entry most recently stored under it,
                \* and whether every call that stored under it found it absent
    calls,      \* number of calls started
    arg,        \* study of a pure function: its argument
    out         \* study of a pure function: <<its value>>, <<>> before the call

vars == <<cache, now, pc, request, loc, obs, returned, last_put, calls, arg, out>>

NoRequest == Request(<<>>, <<>>, <<>>, <<>>)
\* Python's None, also the value of a local not yet assigned
None == [status |-> "None"]
NoResponse == [status |-> "none"]
EmptyCache == [k \in {} |-> None]

NoLocals ==
    [cache_key |-> <<>>, cache_time |-> 0, df |-> <<>>, e |-> <<>>,
     result |-> None, timestamp |-> 0, data |-> None]

NoObs ==
    [found |-> FALSE, young |-> FALSE, decided |-> FALSE, hit |-> FALSE,
     seen |-> None, fetches |-> 0, fetch_args |-> <<>>, outcome |-> "none",
     raised |-> <<>>,
     normalized |-> FALSE, stores |-> 0, overwrote |-> FALSE]

\* the record kept of a finished call
Returned(r, l, o, resp) ==
    [request |-> r, cache_key |-> l.cache_key, cache_time |-> l.cache_time,
     obs |-> o, response |-> resp]

NoCall == Returned(NoRequest, NoLocals, NoObs, NoResponse)

Init ==
    /\ cache = EmptyCache
    /\ now = 0
    /\ pc = [w \in Workers |-> "idle"]
    /\ request = [w \in Workers |-> NoRequest]
    /\ loc = [w \in Workers |-> NoLocals]
    /\ obs = [w \in Workers |-> NoObs]
    /\ returned = NoCall
    /\ last_put = EmptyCache
    /\ calls = 0
    /\ arg = <<>>
    /\ out = <<>>


\* ------------------------------------------------------------ cache access
\* the cache rebuilt around the new entry: self.cache = {cache_key: entry}
StoreAlone(c, key, entry) == [k \in {key} |-> entry]

\* self.cache[cache_key] = entry
Store(c, key, entry) ==
    [k \in DOMAIN c \cup {key} |-> IF k = key THEN entry ELSE c[k]]

\* {'data': result, 'timestamp': time.time()}, the clock read at t
Entry(result, t) == [data |-> result, timestamp |-> t]

\* the comparison written with <=
FreshInclusive(cache_time, t) == (t - cache_time) <= cache_ttl

\* (time.time() - cache_time) < self.cache_ttl, the clock read at t
Fresh(cache_time, t) == (t - cache_time) < cache_ttl

\* self.cache[cache_key]['data']
ReadHit(c, key) == c[key].data

\* a lookup that evicts the entry it finds expired
CacheAfterLookupEvicts(c, key, hit) ==
    IF hit THEN c ELSE [k \in DOMAIN c \ {key} |-> c[k]]

\* the cache after _is_cache_valid has answered (lines 35-41): the function
\* only reads, an expired entry stays where it is
CacheAfterLookup(c, key, hit) == c

\* the except branch refreshing the inserted_at of the entry it falls back on
CacheAfterExceptTouches(c, key, error, t) ==
    IF key \in DOMAIN c THEN [c EXCEPT ![key].timestamp = t] ELSE c

\* the except branch caching the error dict it returns
CacheAfterExceptStores(c, key, error, t) == Store(c, key, Entry(error, t))

\* the cache after the except branch ran: the branch does not touch it
CacheAfterExcept(c, key, error, t) == c

\* the df.empty branch caching its None
CacheAfterEmptyStores(c, key) == Store(c, key, Entry(None, 0))

\* the cache after the df.empty branch returned None: untouched
CacheAfterEmpty(c, key) == c

\* the try block opened only around the provider call
InTryProviderOnly(stage) == stage = "fetch"

\* the try block spans the date parsing, the provider call and the
\* normalisation (lines 53-145), and `except Exception` takes all they raise
InTry(stage) == stage \in {"parse", "fetch", "normalize"}

\* a provider failure retried once
FetcherCallsRetry(outcome) == IF outcome.kind = "raise" THEN 2 ELSE 1

\* number of times lines 62-67 call the provider: once, there is no loop
FetcherCalls(outcome) == 1

\* the success response stamped with the time of the reply, as the error
\* response is
ToResponseRestamped(symbol, data, t) ==
    IF data = None \/ data.status = "error"
    THEN [symbol |-> symbol, timestamp |-> t, status |-> "error",
          error |-> IF data = None THEN <<"No data available">> ELSE data.error]
    ELSE [symbol |-> data.symbol, timestamp |-> t,
          market_data |-> data.market_data,
          price_history |-> data.price_history,
          data_points |-> data.data_points, status |-> data.status]

\* the StockResponse GetStockData builds from `data` (lines 166-202), the clock
\* read at t
ToResponse(symbol, data, t) ==
    IF data = None \/ data.status = "error"
    THEN [symbol |-> symbol, timestamp |-> t, status |-> "error",
          error |-> IF data = None THEN <<"No data available">> ELSE data.error]
    ELSE [symbol |-> data.symbol, timestamp |-> data.timestamp,
          market_data |-> data.market_data,
          price_history |-> data.price_history,
          data_points |-> data.data_points, status |-> data.status]

\* ----------------------------------------------------------------- actions
\* Each action holds one access to the state the threads share (self.cache or
\* the clock) together with the thread-local code around it.

\* single flight: a call that missed waits while a thread of lower number is
\* fetching or storing for the same key
WaitsForFetchInFlight(w) ==
    /\ pc[w] = "try"
    /\ \E v \in Workers :
          /\ v < w
          /\ pc[v] \in {"try", "put_time", "put_store"}
          /\ loc[v].cache_key = loc[w].cache_key

\* one lock around the whole of _get_stock_data_optimized: a thread waits while
\* a thread of lower number is inside the try block
WaitsForLock(w) ==
    \E v \in Workers : v < w /\ pc[v] \in {"try", "put_time", "put_store"}

\* thread w has to wait for another thread before its next step.  The handler
\* takes no lock, waits on no condition and joins no thread (lines 35-51,
\* 137-140, 154-202): it never waits.
Waits(w) == FALSE

\* the pool hands a request to an idle thread; the threads are interchangeable,
\* so it is the first idle one
FirstIdle(w) == pc[w] = "idle" /\ \A v \in Workers : pc[v] = "idle" => w <= v

\* the call of thread w returns resp: the thread goes back to the pool
Return(w, l, o, resp) ==
    /\ returned' = Returned(request[w], l, o, resp)
    /\ pc' = [pc EXCEPT ![w] = "idle"]
    /\ request' = [request EXCEPT ![w] = NoRequest]
    /\ loc' = [loc EXCEPT ![w] = NoLocals]
    /\ obs' = [obs EXCEPT ![w] = NoObs]

\* A pool thread takes a request: GetStockData lines 156-164, the key of
\* line 46, and the dict reads of _is_cache_valid (lines 37-40)
Begin(w, r) ==
    /\ FirstIdle(w)
    /\ calls < MaxCalls
    /\ calls' = calls + 1
    /\ request' = [request EXCEPT ![w] = r]
    /\ LET key == KeyOf(r)
           found == key \in DOMAIN cache
       IN  /\ loc' = [loc EXCEPT ![w] =
                        [NoLocals EXCEPT
                           !.cache_key = key,
                           !.cache_time = IF found THEN cache[key].timestamp
                                          ELSE 0]]
           /\ obs' = [obs EXCEPT ![w] =
                        [NoObs EXCEPT !.found = found, !.decided = ~found,
                                      !.seen = IF found THEN cache[key]
                                               ELSE None]]
           /\ pc' = [pc EXCEPT ![w] = IF found THEN "valid" ELSE "try"]
    /\ returned' = NoCall
    /\ UNCHANGED <<cache, now, last_put, arg, out>>

\* line 41: read the clock and compare
IsCacheValid(w) ==
    /\ pc[w] = "valid"
    /\ ~Waits(w)
    /\ LET hit == Fresh(loc[w].cache_time, now)
       IN  /\ obs' = [obs EXCEPT ![w].young = now - loc[w].cache_time < cache_ttl,
                                 ![w].decided = TRUE, ![w].hit = hit]
           /\ pc' = [pc EXCEPT ![w] = IF hit THEN "hit" ELSE "try"]
           /\ cache' = CacheAfterLookup(cache, loc[w].cache_key, hit)
    /\ returned' = NoCall
    /\ UNCHANGED <<now, request, loc, last_put, calls, arg, out>>

\* line 51, return self.cache[cache_key]['data'], and the conversion of the
\* snapshot into the response (lines 166, 175-202)
CacheHit(w) ==
    /\ pc[w] = "hit"
    /\ ~Waits(w)
    /\ LET data == ReadHit(cache, loc[w].cache_key)
       IN  Return(w, [loc[w] EXCEPT !.data = data],
                  [obs[w] EXCEPT !.outcome = "hit"],
                  ToResponse(request[w].symbol, data, now))
    /\ UNCHANGED <<cache, now, last_put, calls, arg, out>>

\* An exception with message e raised in `stage` of the call of thread w: the
\* except branch (lines 145-152) builds the error dict, reading the clock
Raise(w, stage, e, o) ==
    /\ obs' = [obs EXCEPT ![w] = [o EXCEPT !.raised = e]]
    /\ returned' = NoCall
    /\ request' = request
    /\ IF InTry(stage)
       THEN LET error == BuildError(request[w].symbol, e, now)
            IN  /\ pc' = [pc EXCEPT ![w] = "respond"]
                /\ loc' = [loc EXCEPT ![w].e = e, ![w].data = error]
                /\ cache' = CacheAfterExcept(cache, loc[w].cache_key, error, now)
       ELSE /\ pc' = [pc EXCEPT ![w] = "escaped"]
            /\ loc' = [loc EXCEPT ![w].e = e]
            /\ cache' = cache

\* lines 55-132 and 145-152: parse the dates, call the provider, test df.empty;
\* then sort, truncate and build `result` (datetime.now() is read at line 119)
Fetch(w) ==
    /\ pc[w] = "try"
    /\ ~Waits(w)
    /\ LET r == request[w]
           start_dt == Strptime(r.start_date)
           end_dt == Strptime(r.end_date)
       IN  IF start_dt = <<>>
           THEN Raise(w, "parse", ParseErrorMessage(r.start_date),
                      [obs[w] EXCEPT !.outcome = "baddate"])
           ELSE IF end_dt = <<>>
           THEN Raise(w, "parse", ParseErrorMessage(r.end_date),
                      [obs[w] EXCEPT !.outcome = "baddate"])
           ELSE \E o \in FetchOutcomes(Upper(r.symbol),
                                       Strftime(ValueOf(start_dt)),
                                       Strftime(ValueOf(end_dt)), r.interval) :
                  LET called ==
                        [obs[w] EXCEPT
                           !.fetches = @ + FetcherCalls(o),
                           !.fetch_args = <<Upper(r.symbol),
                                            Strftime(ValueOf(start_dt)),
                                            Strftime(ValueOf(end_dt)),
                                            r.interval>>]
                  IN  IF o.kind = "raise"
                      THEN Raise(w, "fetch", o.error,
                                 [called EXCEPT !.outcome = "raise"])
                      ELSE IF Len(o.df) = 0
                      THEN \* return None (line 71); GetStockData answers
                           \* 'No data available' (lines 166-172)
                           /\ Return(w, [loc[w] EXCEPT !.data = None],
                                     [called EXCEPT !.outcome = "empty"],
                                     ToResponse(r.symbol, None, now))
                           /\ cache' = CacheAfterEmpty(cache, loc[w].cache_key)
                      ELSE IF ZeroDivision(Window(o.df))
                      THEN Raise(w, "normalize", ZeroDivisionMessage,
                                 [called EXCEPT !.outcome = "raise"])
                      ELSE /\ loc' = [loc EXCEPT ![w].result =
                                        BuildResult(r.symbol, o.df, now)]
                           /\ obs' = [obs EXCEPT ![w] =
                                        [called EXCEPT !.outcome = "rows",
                                                       !.normalized = TRUE]]
                           /\ pc' = [pc EXCEPT ![w] = "put_time"]
                           /\ cache' = cache
                           /\ returned' = NoCall
                           /\ request' = request
    /\ UNCHANGED <<now, last_put, calls, arg, out>>

\* line 139: time.time() is evaluated while the entry dict is being built
PutTime(w) ==
    /\ pc[w] = "put_time"
    /\ ~Waits(w)
    /\ loc' = [loc EXCEPT ![w].timestamp = now]
    /\ pc' = [pc EXCEPT ![w] = "put_store"]
    /\ returned' = NoCall
    /\ UNCHANGED <<cache, now, request, obs, last_put, calls, arg, out>>

\* line 137, the entry is stored under cache_key; line 143, result is
\* returned, and converted into the response (lines 166, 175-202)
PutStore(w) ==
    /\ pc[w] = "put_store"
    /\ ~Waits(w)
    /\ LET entry == Entry(loc[w].result, loc[w].timestamp)
       IN  /\ cache' = Store(cache, loc[w].cache_key, entry)
           /\ last_put' =
                [k \in DOMAIN last_put \cup {loc[w].cache_key} |->
                   IF k = loc[w].cache_key
                   THEN [entry |-> entry,
                         racing |-> /\ ~obs[w].found
                                    /\ k \in DOMAIN last_put => last_put[k].racing]
                   ELSE last_put[k]]
    /\ Return(w, [loc[w] EXCEPT !.data = loc[w].result],
              [obs[w] EXCEPT !.stores = @ + 1,
                             !.overwrote = loc[w].cache_key \in DOMAIN cache],
              ToResponse(request[w].symbol, loc[w].result, now))
    /\ UNCHANGED <<now, calls, arg, out>>

\* lines 166-172: `data` is None or an error dict; GetStockData builds the
\* error response, reading the clock
Respond(w) ==
    /\ pc[w] = "respond"
    /\ ~Waits(w)
    /\ Return(w, loc[w], obs[w],
              ToResponse(request[w].symbol, loc[w].data, now))
    /\ UNCHANGED <<cache, now, last_put, calls, arg, out>>

\* the wall clock advances (time is counted from the arrival of the first
\* request)
Tick ==
    /\ calls > 0
    /\ now < MaxTicks * TickStep
    /\ now' = now + TickStep
    /\ returned' = NoCall
    /\ UNCHANGED <<cache, pc, request, loc, obs, last_put, calls, arg, out>>

Next ==
    \/ \E w \in Workers : \E r \in Requests : Begin(w, r)
    \/ \E w \in Workers : IsCacheValid(w)
    \/ \E w \in Workers : CacheHit(w)
    \/ \E w \in Workers : Fetch(w)
    \/ \E w \in Workers : PutTime(w)
    \/ \E w \in Workers : PutStore(w)
    \/ \E w \in Workers : Respond(w)
    \/ Tick

Spec == Init /\ [][Next]_vars

\* Scheduling.  A pool thread that can take a step of its own code takes it in
\* the end (the interpreter hands the GIL round).  Nothing is assumed of
\* Fetch: the provider call of lines 62-67 has no timeout and need not return;
\* nor of the arrival of requests and the advance of the clock.
ThreadsRun ==
    \A w \in Workers :
       /\ WF_vars(IsCacheValid(w))
       /\ WF_vars(CacheHit(w))
       /\ WF_vars(PutTime(w))
       /\ WF_vars(PutStore(w))
       /\ WF_vars(Respond(w))

SpecFair == Spec /\ ThreadsRun

\* ------------------------------------------------- study of the normaliser
\* The pipeline of lines 74-132 applied to one frame: arg is the frame the
\* provider delivered, out the result built from it.

\* row of slot t, with prices and volume that tell the rows apart
StudyRow(t) ==
    Row(Cell(t), Cell(1000 + t), Cell(10 * t), Cell(1002 + t), Cell(999 + t))

\* the numbers of rows delivered: a few, and around the limit of 200
StudySizes ==
    (1..MaxSmall) \cup ((MaxHistory - 1)..(MaxHistory + MaxExtra))

\* the slots 1..n in the order of delivery: rotated by s, then reversed or not
DeliveryOrder(n, s, reversed) ==
    [i \in 1..n |->
       LET t == ((i + s - 1) % n) + 1 IN IF reversed THEN n + 1 - t ELSE t]

StudyFrames ==
    { [i \in 1..n |-> StudyRow(DeliveryOrder(n, s, rev)[i])] :
        n \in StudySizes, s \in 0..MaxShift, rev \in BOOLEAN }

InitNorm ==
    /\ cache = EmptyCache
    /\ now = 0
    /\ pc = [w \in Workers |-> "idle"]
    /\ request = [w \in Workers |-> NoRequest]
    /\ loc = [w \in Workers |-> NoLocals]
    /\ obs = [w \in Workers |-> NoObs]
    /\ returned = NoCall
    /\ last_put = EmptyCache
    /\ calls = 0
    /\ arg \in StudyFrames
    /\ out = <<>>

\* lines 73-152 on the frame arg, for the symbol "a" at clock reading 0
Normalise ==
    /\ out = <<>>
    /\ out' = <<NormaliseOutcome(<<"a">>, arg, 0)>>
    /\ UNCHANGED <<cache, now, pc, request, loc, obs, returned, last_put,
                   calls, arg>>

NextNorm == Normalise

SpecNorm == InitNorm /\ [][NextNorm]_vars

\* --------------------------------------------------- study of the metrics
\* The same pipeline on frames of one or two rows whose close and volume take
\* the values the guards of lines 106-115 are there for: missing, negative,
\* zero and positive.
MetricCloses == {NaN} \cup {Cell(c) : c \in (-1)..MaxClose}

MetricVolumes == {NaN} \cup {Cell(v) : v \in 0..MaxVolume}

MetricRow(t, c, v) == Row(Cell(t), c, v, Cell(5), Cell(1))

MetricFrames ==
    { <<MetricRow(1, c, v)>> : c \in MetricCloses, v \in MetricVolumes }
    \cup
    { <<MetricRow(t, c1, v1), MetricRow(3 - t, c2, v2)>> :
        t \in 1..2, c1 \in MetricCloses, v1 \in MetricVolumes,
        c2 \in MetricCloses, v2 \in MetricVolumes }

InitMetrics ==
    /\ cache = EmptyCache
    /\ now = 0
    /\ pc = [w \in Workers |-> "idle"]
    /\ request = [w \in Workers |-> NoRequest]
    /\ loc = [w \in Workers |-> NoLocals]
    /\ obs = [w \in Workers |-> NoObs]
    /\ returned = NoCall
    /\ last_put = EmptyCache
    /\ calls = 0
    /\ arg \in MetricFrames
    /\ out = <<>>

SpecMetrics == InitMetrics /\ [][NextNorm]_vars

\* ------------------------------------------------- study of the cache key
\* Line 46 applied to two requests: arg is the pair of requests, out the pair
\* of their keys.
Alphabet == {"a", "_"}

RECURSIVE StringsOfLength(_)
StringsOfLength(n) ==
    IF n = 0 THEN { <<>> }
    ELSE { Append(s, c) : s \in StringsOfLength(n - 1), c \in Alphabet }

Strings == UNION { StringsOfLength(n) : n \in 0..MaxLen }

StudyRequests ==
    { Request(a, b, c, d) : a \in Strings, b \in Strings, c \in Strings,
                            d \in Strings }

InitKey ==
    /\ cache = EmptyCache
    /\ now = 0
    /\ pc = [w \in Workers |-> "idle"]
    /\ request = [w \in Workers |-> NoRequest]
    /\ loc = [w \in Workers |-> NoLocals]
    /\ obs = [w \in Workers |-> NoObs]
    /\ returned = NoCall
    /\ last_put = EmptyCache
    /\ calls = 0
    /\ arg \in StudyRequests \X StudyRequests
    /\ out = <<>>

\* line 46 for both requests
BuildKeys ==
    /\ out = <<>>
    /\ out' = <<KeyOf(arg[1]), KeyOf(arg[2])>>
    /\ UNCHANGED <<cache, now, pc, request, loc, obs, returned, last_put,
                   calls, arg>>

NextKey == BuildKeys

SpecKey == InitKey /\ [][NextKey]_vars

\* ================================================================== claims
\* a dict with exactly the fields of a MarketSnapshot and status "success"
IsMarketSnapshot(d) ==
    /\ DOMAIN d = {"symbol", "timestamp", "market_data", "price_history",
                   "data_points", "status"}
    /\ d.status = "success"

Outcome == returned.obs.outcome

\* C1: in every reachable state every entry of the cache holds a
\* MarketSnapshot with status "success": no error dict and no None is stored.
C1_CacheHoldsOnlySuccess ==
    \A k \in DOMAIN cache : IsMarketSnapshot(cache[k].data)

\* a provider failure on a key whose (expired) entry is in the cache
C1_Witness ==
    /\ Outcome = "raise"
    /\ returned.cache_key \in DOMAIN cache

C3_HitReturnsLastPut ==
    [][\A w \in Workers :
         (pc[w] = "hit" /\ pc'[w] = "idle") =>
            LET snap == last_put[loc[w].cache_key].entry.data
                resp == returned'.response
            IN  /\ resp.symbol = snap.symbol
                /\ resp.timestamp = snap.timestamp
                /\ resp.market_data = snap.market_data
                /\ resp.price_history = snap.price_history
                /\ resp.data_points = snap.data_points
                /\ resp.status = snap.status
                /\ returned'.obs.fetches = 0
                /\ cache' = cache]_vars

\* a hit that returns a snapshot built before the present clock reading
C3_Witness ==
    /\ Outcome = "hit"
    /\ returned.response.status = "success"
    /\ returned.response.timestamp < now

\* C4: every call returns a response of status "success" or "error"; a
\* provider failure and an unparsable date end in an error response that
\* carries the message of the exception, and no exception leaves the handler.
C4_ErrorsContained ==
    /\ \A w \in Workers : pc[w] # "escaped"
    /\ returned # NoCall =>
         /\ returned.response.status \in {"success", "error"}
         /\ (returned.response.status = "success") <=> (Outcome \in {"hit", "rows"})
         /\ Outcome = "raise" =>
              /\ returned.response.error \in ProviderErrors
              /\ returned.response.error = returned.obs.raised
         /\ Outcome = "baddate" =>
              /\ returned.response.error
                   \in { ParseErrorMessage(returned.request.start_date),
                         ParseErrorMessage(returned.request.end_date) }
              /\ returned.response.error = returned.obs.raised

\* an unparsable date answered with an error while another call is in flight
C4_Witness ==
    /\ Outcome = "baddate"
    /\ returned.response.status = "error"
    /\ \E w \in Workers : pc[w] # "idle"

\* C5: when threads run concurrently on a key that was not cached, no thread
\* is lost, every cache entry is the complete snapshot and inserted_at of the
\* last store, and a thread answered from the cache returns the snapshot that
\* belongs to the inserted_at its lookup read.
C5_ConcurrencySafe ==
    /\ \A w \in Workers : pc[w] # "escaped"
    /\ \A k \in DOMAIN cache :
         /\ IsMarketSnapshot(cache[k].data)
         /\ cache[k] = last_put[k].entry
    /\ (Outcome = "hit" /\ last_put[returned.cache_key].racing) =>
         /\ returned.obs.seen.timestamp = returned.cache_time
         /\ returned.response = returned.obs.seen.data

\* C7: the cache changes only in the store of a call that fetched rows, and
\* then only under that call's own key; a call that ends in a hit, an empty
\* fetch, a provider failure or a date that does not parse has stored nothing.
C7_CacheFrame ==
    [][/\ cache' # cache =>
            \E w \in Workers :
               /\ pc[w] = "put_store" /\ pc'[w] = "idle"
               /\ obs[w].outcome = "rows"
               /\ loc[w].cache_key = KeyOf(request[w])
               /\ DOMAIN cache' = DOMAIN cache \cup {loc[w].cache_key}
               /\ \A k \in DOMAIN cache \ {loc[w].cache_key} :
                      cache'[k] = cache[k]
       /\ (returned' # NoCall /\ returned'.obs.outcome # "rows") =>
            /\ cache' = cache
            /\ returned'.obs.stores = 0]_vars

\* both keys are cached and a call has just failed
C7_Witness ==
    /\ Cardinality(DOMAIN cache) = 2
    /\ Outcome \in {"raise", "empty", "baddate"}

\* C8: a call whose fetch returns zero rows answers with status "error" and a
\* message that is not empty, has not run the normaliser and leaves the cache
\* as it was.
C8_EmptyFetch ==
    [][(returned'.obs.outcome = "empty" /\ pc' # pc) =>
          /\ returned'.response.status = "error"
          /\ returned'.response.error # <<>>
          /\ ~returned'.obs.normalized
          /\ returned'.obs.stores = 0
          /\ returned'.obs.fetches = 1
          /\ cache' = cache]_vars

\* an empty fetch for a key whose entry has expired
C8_Witness ==
    /\ Outcome = "empty"
    /\ returned.cache_key \in DOMAIN cache
    /\ returned.response.status = "error"

\* C9: a call invokes the Fetcher at most once, and not at all when it is
\* a cache hit; a failure or an empty result is not retried.
C9_AtMostOneFetch ==
    /\ \A w \in Workers :
         /\ obs[w].fetches <= 1
         /\ pc[w] = "hit" => obs[w].fetches = 0
    /\ returned.obs.fetches <= 1
    /\ Outcome = "hit" => returned.obs.fetches = 0
    /\ Outcome \in {"raise", "empty"} => returned.obs.fetches = 1

\* a provider failure, called once
C9_Witness ==
    /\ Outcome = "raise"
    /\ returned.obs.fetches = 1

\* C6: two requests have the same cache key iff they are equal field by field.
C6_KeyInjective ==
    out # <<>> => ((out[1] = out[2]) <=> (arg[1] = arg[2]))

\* C10: for n rows delivered in any order, price_history has min(n, 200)
\* entries, the i-th being the row that has exactly min(n, 200) - i later rows,
\* and data_points is that length.
C10_Truncation ==
    out # <<>> =>
        LET snap == out[1]
            n == Len(arg)
            k == IF n < MaxHistory THEN n ELSE MaxHistory
            h == snap.price_history
        IN  /\ Len(h) = k
            /\ Len(h) <= MaxHistory
            /\ snap.data_points = k
            /\ \A i \in 1..k :
                 \E j \in 1..n :
                    /\ h[i] = PricePoint(arg[j])
                    /\ Cardinality({m \in 1..n :
                          ValueOf(arg[m].time) > ValueOf(arg[j].time)}) = k - i

\* more than 200 rows, delivered out of order, have been normalised
C10_Witness ==
    /\ out # <<>>
    /\ Len(arg) > MaxHistory
    /\ arg[1].time # Cell(1)
    /\ Len(out[1].price_history) = MaxHistory

\* C11: the metrics are computed after the truncation: market_data is what the
\* retained rows alone give (the min(n, 200) rows with the latest times), the
\* latest and the previous row being the two latest of them, so that a row
\* the truncation drops has no influence on any metric.
C11_TruncateBeforeMetrics ==
    out # <<>> =>
        LET n == Len(arg)
            k == IF n < MaxHistory THEN n ELSE MaxHistory
            Later(row) == Cardinality({m \in 1..n :
                              ValueOf(arg[m].time) > ValueOf(row.time)})
            Kept(row) == Later(row) < k
            retained == SelectSeq(arg, Kept)
            md == out[1].market_data
        IN  /\ Len(retained) = k
            /\ md = BuildResult(<<"a">>, retained, 0).market_data
            /\ \E j \in 1..n :
                 /\ Later(arg[j]) = 0
                 /\ md.latest_price = arg[j].close
                 /\ md.current_volume = ValueOf(arg[j].volume)
                 /\ k > 1 =>
                      \E i \in 1..n :
                         /\ Later(arg[i]) = 1
                         /\ md.price_change =
                              Cell((ValueOf(arg[j].close) - ValueOf(arg[i].close)) * 100)

\* more than 200 rows, and the average volume of all of them would have given
\* another volume_ratio than the one computed
C11_Witness ==
    /\ out # <<>>
    /\ Len(arg) > MaxHistory
    /\ out[1].market_data.volume_ratio
         # RoundDiv(out[1].market_data.current_volume * 100, AvgVolume(arg))

\* the row of the frame arg that has exactly i rows later than it
NthLatest(i) ==
    CHOOSE row \in {arg[m] : m \in 1..Len(arg)} :
        Cardinality({m \in 1..Len(arg) :
            ValueOf(arg[m].time) > ValueOf(row.time)}) = i

\* C12: for every window the normaliser answers with a success snapshot (no
\* division by zero turns it into an error), in which a previous close of 0
\* gives price_change_percent 0.0, an avg_volume of 0 gives volume_ratio 1.0,
\* and a latest close <= 0 gives price_volatility 0.0.
C12_ZeroDivisionGuards ==
    out # <<>> =>
        LET n == Len(arg)
            latest == NthLatest(0)
            previous == IF n > 1 THEN NthLatest(1) ELSE latest
            present == {m \in 1..n : notna(arg[m].volume)}
            md == out[1].market_data
        IN  /\ out[1].status = "success"
            /\ previous.close = Cell(0) => md.price_change_percent = Cell(0)
            /\ (present = {} \/ SumVolume(arg, 1, n) < Cardinality(present)) =>
                 md.volume_ratio = 100
            /\ (notna(latest.close) /\ ValueOf(latest.close) <= 0) =>
                 md.price_volatility = Cell(0)

\* two rows, every close 0 and every volume 0: all three guards at once
C12_Witness ==
    /\ out # <<>>
    /\ Len(arg) = 2
    /\ \A m \in 1..2 : arg[m].close = Cell(0) /\ arg[m].volume = Cell(0)
    /\ out[1].status = "success"

\* the volume of the latest row of arg, 0 when it is missing (line 109)
LatestVolume ==
    IF notna(NthLatest(0).volume) THEN ValueOf(NthLatest(0).volume) ELSE 0

\* C13 as stated: volume_ratio is current_volume divided by the mean of the
\* non-missing volumes, rounded to 2 decimals, whenever that mean is greater
\* than 0, and 1.0 when the mean is 0 or every volume is missing.
C13_Original ==
    out # <<>> =>
        LET n == Len(arg)
            count == Cardinality({m \in 1..n : notna(arg[m].volume)})
            total == SumVolume(arg, 1, n)
            ratio == out[1].market_data.volume_ratio
        IN  IF count > 0 /\ total > 0
            THEN ratio = RoundDiv(LatestVolume * 100 * count, total)
            ELSE ratio = 100

\* C13: avg_volume is the mean of the non-missing volumes truncated to an
\* integer (0 if all are missing); volume_ratio is current_volume / avg_volume
\* rounded to 2 decimals when avg_volume > 0, that is when the mean is at
\* least 1, and 1.0 otherwise.
C13_VolumeRatio ==
    out # <<>> =>
        LET n == Len(arg)
            count == Cardinality({m \in 1..n : notna(arg[m].volume)})
            total == SumVolume(arg, 1, n)
            avg_volume == IF count = 0 THEN 0 ELSE total \div count
            ratio == out[1].market_data.volume_ratio
        IN  /\ total >= count /\ count > 0 =>
                 ratio = RoundDiv(LatestVolume * 100, avg_volume)
            /\ total < count \/ count = 0 => ratio = 100

\* a mean strictly between 0 and 1: the ratio is 1.0 although the latest
\* volume is twice the mean
C13_Witness ==
    /\ out # <<>>
    /\ Len(arg) = 2
    /\ NthLatest(0).volume = Cell(1)
    /\ NthLatest(1).volume = Cell(0)
    /\ out[1].market_data.volume_ratio = 100

UpperCased(s, t) ==
    /\ Len(t) = Len(s)
    /\ \A i \in 1..Len(s) : t[i] = (IF s[i] = "a" THEN "A" ELSE s[i])

\* the symbol passed to the provider and the symbol of every cached snapshot
\* are the upper-cased request symbol (the cache key starts with the request
\* symbol)
FetchedAndCachedUpperCased ==
    /\ \A w \in Workers :
         obs[w].fetches > 0 =>
            UpperCased(request[w].symbol, obs[w].fetch_args[1])
    /\ returned.obs.fetches > 0 =>
         UpperCased(returned.request.symbol, returned.obs.fetch_args[1])
    /\ \A w \in Workers :
         pc[w] \in {"put_time", "put_store"} =>
            UpperCased(request[w].symbol, loc[w].result.symbol)
    /\ \A k \in DOMAIN cache :
         LET symbol == cache[k].data.symbol
         IN  /\ Len(symbol) <= Len(k)
             /\ UpperCased(SubSeq(k, 1, Len(symbol)), symbol)

\* C15 as stated: the symbol passed to the provider, the symbol of every
\* cached snapshot and the symbol of every response, success or error, is the
\* upper-cased request symbol.
C15_Original ==
    /\ FetchedAndCachedUpperCased
    /\ returned # NoCall =>
         UpperCased(returned.request.symbol, returned.response.symbol)

\* C15: the symbol passed to the provider, the symbol of every cached snapshot
\* and the symbol of every success response is the upper-cased request symbol;
\* an error response carries the request symbol as it was received.
C15_SymbolUpperCased ==
    /\ FetchedAndCachedUpperCased
    /\ returned.response.status = "success" =>
         UpperCased(returned.request.symbol, returned.response.symbol)
    /\ returned.response.status = "error" =>
         returned.response.symbol = returned.request.symbol

\* an error response to a request with a lower-case symbol, a snapshot being
\* in the cache
C15_Witness ==
    /\ returned.response.status = "error"
    /\ returned.request.symbol = <<"a">>
    /\ returned.response.symbol = <<"a">>
    /\ DOMAIN cache # {}

\* C16: no step removes a key from the cache; a lookup that finds its entry
\* expired goes on as a miss and leaves the cache as it was; and an entry
\* changes only by being replaced as a whole, snapshot and inserted_at, in
\* the store of a call for the same key that fetched rows.
C16_NoDelete ==
    [][/\ DOMAIN cache \subseteq DOMAIN cache'
       /\ \A w \in Workers :
            (pc[w] = "valid" /\ pc'[w] = "try") =>
               /\ loc[w].cache_key \in DOMAIN cache
               /\ cache' = cache
       /\ \A k \in DOMAIN cache :
            cache'[k] # cache[k] =>
               \E w \in Workers :
                  /\ pc[w] = "put_store" /\ pc'[w] = "idle"
                  /\ KeyOf(request[w]) = k
                  /\ obs[w].outcome = "rows"
                  /\ cache'[k] = [data |-> loc[w].result,
                                  timestamp |-> loc[w].timestamp]]_vars

\* a lookup has found its entry expired: the call is on the miss path and the
\* entry it looked at is still in the cache
C16_Witness ==
    \E w \in Workers :
       /\ pc[w] = "try"
       /\ obs[w].found /\ obs[w].decided /\ ~obs[w].young
       /\ loc[w].cache_key \in DOMAIN cache
       /\ cache[loc[w].cache_key].timestamp = loc[w].cache_time

\* C17: calls are not coalesced.  A call that has seen a miss can call the
\* provider at once, and a call that has fetched rows can stamp and store them
\* at once, whatever the other threads are doing, on the same key or not;
\* and a call that writes the cache has called the provider itself.
C17_NoCoalescing ==
    [](/\ \A w \in Workers :
            /\ pc[w] = "try" => ENABLED Fetch(w)
            /\ pc[w] = "put_time" => ENABLED PutTime(w)
            /\ pc[w] = "put_store" => ENABLED PutStore(w)
            /\ pc[w] \in {"put_time", "put_store"} => obs[w].fetches = 1
       /\ returned.obs.stores > 0 => returned.obs.fetches = 1)

\* two overlapping calls for one key have both missed, both fetched and both
\* written: the call that has just returned found the key absent, fetched,
\* and overwrote the entry another such call had stored in the meantime
C17_Witness ==
    /\ returned.obs.outcome = "rows"
    /\ ~returned.obs.found
    /\ returned.obs.fetches = 1
    /\ returned.obs.stores = 1
    /\ returned.obs.overwrote
    /\ last_put[returned.cache_key].racing

\* C18: a call whose lookup found the entry of its key aged 30 seconds or
\* more, and whose fetch then fails or finds no rows, answers with an error
\* response that holds no snapshot; its failure leaves the entry and its
\* inserted_at as they were, and a lookup that reads an inserted_at of age 30
\* seconds or more is never a hit.
C18_NoStaleFallback ==
    [][/\ ( /\ returned' # NoCall /\ pc' # pc
            /\ returned'.obs.found /\ ~returned'.obs.young
            /\ returned'.obs.outcome \in {"raise", "empty"} ) =>
               /\ returned'.response.status = "error"
               /\ DOMAIN returned'.response
                    = {"symbol", "timestamp", "status", "error"}
               /\ returned'.obs.stores = 0
               /\ cache' = cache
       /\ \A w \in Workers :
            ( /\ obs[w].found /\ obs[w].decided /\ ~obs[w].young
              /\ pc[w] = "try" /\ pc'[w] \in {"respond", "idle"} ) =>
               cache' = cache
       /\ \A w \in Workers :
            (pc[w] = "valid" /\ now - loc[w].cache_time >= cache_ttl) =>
               pc'[w] # "hit"]_vars

\* the fetch for an expired entry has failed: an error is returned and the
\* entry is in the cache with the inserted_at the lookup read
C18_Witness ==
    /\ returned.obs.found /\ ~returned.obs.young
    /\ returned.obs.outcome = "raise"
    /\ returned.response.status = "error"
    /\ returned.cache_key \in DOMAIN cache
    /\ cache[returned.cache_key].timestamp = returned.cache_time
    /\ now - returned.cache_time >= cache_ttl

\* C19: the inserted_at of a key's entry never decreases from one store to the
\* next, and no entry has an inserted_at earlier than the timestamp its
\* snapshot was built with.
C19_PutStampsWriteTime ==
    [][/\ \A k \in DOMAIN cache :
            k \in DOMAIN cache' /\ cache'[k].timestamp >= cache[k].timestamp
       /\ \A k \in DOMAIN cache' :
            cache'[k].timestamp >= cache'[k].data.timestamp]_vars

\* C20: a call whose provider invocation has returned (it holds rows to stamp
\* and store, or an error to answer with) and a call that is a cache hit
\* return in the end, and a lookup is decided in the end, even when other
\* threads stay in their provider call for ever; a call can remain without
\* return only while it is in its own provider call.
C20_Termination ==
    \A w \in Workers :
       /\ (pc[w] \in {"hit", "put_time", "put_store", "respond"})
             ~> (pc[w] = "idle")
       /\ (pc[w] = "valid") ~> (pc[w] \in {"idle", "try"})

\* a cache hit has returned while another thread is in its provider call
C20_Witness ==
    /\ returned.obs.outcome = "hit"
    /\ \E w \in Workers : pc[w] = "try" /\ obs[w].fetches = 0

=============================================================================
